---------------------------- MODULE Spec2Model ----------------------------
(***************************************************************************)
(* Model of src/app.py, a Streamlit script: a synthetic exchange-rate      *)
(* generator (load_data, cached by st.cache_data) and the script body that *)
(* filters the dataset by the two sidebar widgets and derives metrics,     *)
(* per-pair statistics and three risk buckets.                             *)
(*                                                                         *)
(* Units.  TLA+ has integers only, so every real of the program is a       *)
(* fixed-point integer:                                                    *)
(*   Exchange_Rate   ticks of 1e-4 (the code rounds rates to 4 decimals)   *)
(*   base            1e-2,  volatility 1e-3,  a standard normal draw 1e-3  *)
(*   sin             1e-6,  trend and the factor 1+trend+change  1e-7      *)
(*   Date            day ordinal (days since 1970-01-01)                   *)
(* A standard deviation is kept exactly, as the moments it is computed     *)
(* from (n, sum, sum of squares); the comparisons of the code with 1 and 5 *)
(* are decided on them in exact arithmetic.  TLC integers are 32 bits, so  *)
(* sums of squares are kept as little-endian sequences of base-1000 limbs. *)
(***************************************************************************)
EXTENDS Integers, Sequences, FiniteSets, TLC

VARIABLES
    span,           \* the arguments of pd.date_range: [start, end] ordinals
    rng,            \* state of the global np.random generator
    cache,          \* st.cache_data's store for load_data: <<>> or <<dataset>>
    loads,          \* how many times the body of load_data has run
    df,             \* module-level df: <<>> before line 49, else <<dataset>>
    currencies,     \* value of the multiselect widget (a list, in pick order)
    period,         \* value of the selectbox widget
    pc,             \* "rerun": a script run is due; "done"; "stopped"
    ns              \* the names the script run has bound after line 81, a
                    \*   record; each is <<>> (unbound) or <<value>>

widgets == <<currencies, period>>
session == <<span, rng, cache, loads, df>>
vars == <<span, rng, cache, loads, df, currencies, period, pc, ns>>

(***************************************************************************)
(* Bounds of the model.                                                    *)
(***************************************************************************)
\* days of the date range in the session model (the code's range has 366)
NumDays == 32
\* most pairs picked in the multiselect at one time
MaxSelected == 3
\* seeds the unseeded generator may start from: 0 .. NumSeeds-1
NumSeeds == 2
\* most days of a date range handed to the generator alone
MaxRangeDays == 5
\* most rows of a hand-made dataset handed to the script body
MaxRows == 3

Undefined == <<>>
Some(v) == <<v>>
Val(o) == o[1]

Abs(x) == IF x < 0 THEN -x ELSE x
Max(a, b) == IF a >= b THEN a ELSE b

(***************************************************************************)
(* Dates.  pd.date_range(start, end, freq='D') yields every day from start *)
(* to end, both included.                                                  *)
(***************************************************************************)
\* days since 1970-01-01 of a civil date (proleptic Gregorian)
DaysFromCivil(y, m, d) ==
    LET yy  == IF m <= 2 THEN y - 1 ELSE y
        era == yy \div 400
        yoe == yy - era * 400
        mp  == (m + 9) % 12
        doy == (153 * mp + 2) \div 5 + d - 1
        doe == yoe * 365 + yoe \div 4 - yoe \div 100 + doy
    IN  era * 146097 + doe - 719468

\* start='2023-01-01'
StartDate == DaysFromCivil(2023, 1, 1)
\* end='2024-01-01'
EndDate == DaysFromCivil(2024, 1, 1)

date_range_exclusive(start, end) == [k \in 1..(end - start) |-> start + k - 1]
date_range(start, end) == [k \in 1..(end - start + 1) |-> start + k - 1]

(***************************************************************************)
(* The pairs table of load_data, in dict (insertion) order.                *)
(***************************************************************************)
PairNames == <<"USD/EUR", "USD/GBP", "USD/JPY", "USD/INR", "EUR/GBP", "GBP/INR">>
\* 'base', in 1e-2
PairBase == <<85, 75, 11000, 8300, 88, 11000>>
\* 'volatility', in 1e-3
PairVolatility == <<10, 12, 1500, 800, 8, 1200>>
AllPairs == {PairNames[j] : j \in 1..Len(PairNames)}
PairIndex(p) == CHOOSE j \in 1..Len(PairNames) : PairNames[j] = p

(***************************************************************************)
(* np.sin(i * 0.02) * 0.05 in fixed point.                                 *)
(***************************************************************************)
\* a * b / 1e6 for a, b in 1e-6 units, without leaving 32 bits
Mul6(a, b) ==
    LET ah == a \div 1000
        al == a % 1000
        bh == b \div 1000
        bl == b % 1000
    IN  ah * bh + (ah * bl + al * bh + 500) \div 1000
        + (al * bl + 500000) \div 1000000

\* sin(y) for 0 <= y <= pi/2 (1e-6 units): the Taylor series to y^11
SinFirstQuadrant(y) ==
    LET y2 == Mul6(y, y)
        t5 == 1000000 - y2 \div 110
        t4 == 1000000 - Mul6(y2, t5) \div 72
        t3 == 1000000 - Mul6(y2, t4) \div 42
        t2 == 1000000 - Mul6(y2, t3) \div 20
        t1 == 1000000 - Mul6(y2, t2) \div 6
    IN  Mul6(y, t1)

\* sin(x) for x >= 0 in 1e-6 units, result in 1e-6 units
Sin6(x) ==
    LET y == x % 6283185
        h == IF y > 3141593 THEN y - 3141593 ELSE y
        q == IF h > 1570796 THEN 3141593 - h ELSE h
        s == SinFirstQuadrant(q)
    IN  IF y > 3141593 THEN -s ELSE s

\* trend = np.sin(i * 0.02) * 0.05, in 1e-7
Trend(i) ==
    LET s == Sin6(20000 * i)
    IN  IF s >= 0 THEN (s + 1) \div 2 ELSE -((1 - s) \div 2)

(***************************************************************************)
(* np.random.  The generator is never seeded, so its start state is any    *)
(* seed.  The state space is cut to seven states stepping by 3 (mod 7); a  *)
(* draw reads the state and steps it.  normal() maps a state to one of     *)
(* seven quantiles of the standard normal, randint() to one of seven       *)
(* values spread over [low, high).                                         *)
(***************************************************************************)
RngStep(s, draws) == (s + 3 * draws) % 7
\* standard normal quantiles at (k + 0.5) / 7, in 1e-3
StdNormal == <<-1465, -792, -366, 0, 366, 792, 1465>>
\* np.random.normal(0, scale): scale in 1e-3, result in 1e-6
normal(s, scale) == scale * StdNormal[s + 1]
\* np.random.randint(low, high): low <= result < high
randint(s, low, high) == low + (s * (high - low - 1)) \div 6

(***************************************************************************)
(* load_data.                                                              *)
(***************************************************************************)
\* round(base * factor, 4): base in 1e-2, factor in 1e-7, result in ticks,
\* ties to even as Python's round
RoundRate(base, factor) ==
    LET q   == factor \div 100000
        a   == base * (factor % 100000)
        t   == base * q + a \div 100000
        rem == a % 100000
    IN  IF rem > 50000 \/ (rem = 50000 /\ t % 2 = 1) THEN t + 1 ELSE t

\* lines 35-37 and 42: the rate of day index i for pair j with the generator
\* in state s
Rate(i, j, s) ==
    LET trend         == Trend(i)
        random_change == 10 * normal(s, PairVolatility[j])
    IN  RoundRate(PairBase[j], 10000000 + trend + random_change)

\* the loops of lines 31-46: row k is day (k-1) \div 6, pair (k-1) % 6 + 1,
\* and takes draws 2(k-1) (normal) and 2(k-1)+1 (randint) of the run
GenerateSkippingLastDay(dates, s0) ==
    [k \in 1..((Len(dates) - 1) * Len(PairNames)) |->
        LET i == (k - 1) \div Len(PairNames)
            j == ((k - 1) % Len(PairNames)) + 1
        IN  [Date |-> dates[i + 1],
             Currency_Pair |-> PairNames[j],
             Exchange_Rate |-> Rate(i, j, RngStep(s0, 2 * (k - 1))),
             Volume |-> randint(RngStep(s0, 2 * (k - 1) + 1), 1000000, 8000000)]]
Generate(dates, s0) ==
    [k \in 1..(Len(dates) * Len(PairNames)) |->
        LET i == (k - 1) \div Len(PairNames)
            j == ((k - 1) % Len(PairNames)) + 1
        IN  [Date |-> dates[i + 1],
             Currency_Pair |-> PairNames[j],
             Exchange_Rate |-> Rate(i, j, RngStep(s0, 2 * (k - 1))),
             Volume |-> randint(RngStep(s0, 2 * (k - 1) + 1), 1000000, 8000000)]]


\* @st.cache_data on load_data (lines 16-17, 49): the body runs on a miss
\* only; a hit returns the stored frame and draws nothing
load_data_uncached(c, sp, s) ==
    LET dates == date_range(sp.start, sp.end)
        data  == Generate(dates, s)
    IN  [value |-> data, cache |-> Some(data),
         rng |-> RngStep(s, 2 * Len(data)), ran |-> 1]
load_data(c, sp, s) ==
    IF c # Undefined
    THEN [value |-> Val(c), cache |-> c, rng |-> s, ran |-> 0]
    ELSE LET dates == date_range(sp.start, sp.end)
             data  == Generate(dates, s)
         IN  [value |-> data, cache |-> Some(data),
              rng |-> RngStep(s, 2 * Len(data)), ran |-> 1]

(***************************************************************************)
(* pandas Series reductions over a sequence of integers.                   *)
(***************************************************************************)
\* reductions split the index range in halves, which keeps the evaluation
\* shallow
RECURSIVE SumRange(_, _, _)
SumRange(s, lo, hi) ==
    IF lo > hi THEN 0
    ELSE IF lo = hi THEN s[lo]
    ELSE SumRange(s, lo, (lo + hi) \div 2) + SumRange(s, (lo + hi) \div 2 + 1, hi)
Sum(s) == SumRange(s, 1, Len(s))

RECURSIVE MaxRange(_, _, _)
MaxRange(s, lo, hi) ==
    IF lo = hi THEN s[lo]
    ELSE Max(MaxRange(s, lo, (lo + hi) \div 2),
             MaxRange(s, (lo + hi) \div 2 + 1, hi))
\* Series.max() and Series.min() of a non-empty series
SeqMax(s) == MaxRange(s, 1, Len(s))
SeqMin(s) == -MaxRange([k \in 1..Len(s) |-> -s[k]], 1, Len(s))

\* Series.mean(): kept as the exact quotient sum / n
Mean(s) == [sum |-> Sum(s), n |-> Len(s)]

(***************************************************************************)
(* Natural numbers beyond 32 bits: little-endian base-1000 limbs.          *)
(***************************************************************************)
RECURSIVE Carry(_, _)
Carry(v, c) ==
    IF v = <<>>
    THEN IF c = 0 THEN <<>> ELSE <<c % 1000>> \o Carry(<<>>, c \div 1000)
    ELSE <<(Head(v) + c) % 1000>> \o Carry(Tail(v), (Head(v) + c) \div 1000)
Norm(v) == Carry(v, 0)

Limb(a, i) == IF i <= Len(a) THEN a[i] ELSE 0
BigAdd(a, b) == Norm([i \in 1..Max(Len(a), Len(b)) |-> Limb(a, i) + Limb(b, i)])
\* k at most about 2,000,000
BigScale(a, k) == Norm([i \in 1..Len(a) |-> a[i] * k])

RECURSIVE BigGEAt(_, _, _)
BigGEAt(a, b, i) ==
    IF i = 0 THEN TRUE
    ELSE IF Limb(a, i) > Limb(b, i) THEN TRUE
    ELSE IF Limb(a, i) < Limb(b, i) THEN FALSE
    ELSE BigGEAt(a, b, i - 1)
\* a >= b, for normalised a and b
BigGE(a, b) == BigGEAt(a, b, Max(Len(a), Len(b)))

\* |x| = Hi(x) * 2000 + Lo(x); the sums below stay within 32 bits for a few
\* hundred rates of up to 400 units
Hi(x) == Abs(x) \div 2000
Lo(x) == Abs(x) % 2000
\* the sum of the squares of the entries of s:
\*   4000000 * sum(Hi^2) + 4000 * sum(Hi * Lo) + sum(Lo^2)
SumSquares(s) ==
    BigAdd(Norm(<<Sum([k \in 1..Len(s) |-> Lo(s[k]) * Lo(s[k])])>>),
           BigAdd(<<0>> \o BigScale(Norm(<<Sum([k \in 1..Len(s) |-> Hi(s[k]) * Lo(s[k])])>>), 4),
                  <<0, 0>> \o BigScale(Norm(<<Sum([k \in 1..Len(s) |-> Hi(s[k]) * Hi(s[k])])>>), 4)))
\* x * x for one integer x: |x| = h * 1000000 + l
Square(x) ==
    LET h == Abs(x) \div 1000000
        l == Abs(x) % 1000000
    IN  BigAdd(SumSquares(<<l>>),
               BigAdd(<<0, 0>> \o BigScale(Norm(<<l>>), 2 * h),
                      <<0, 0, 0, 0>> \o Norm(<<h * h>>)))

(***************************************************************************)
(* Series.std(): the sample standard deviation (ddof = 1), NaN for fewer   *)
(* than two values.  The value is kept as its moments: for n >= 2,         *)
(*    std^2 = (n * sumsq - sum^2) / (n * (n - 1))    in ticks^2.           *)
(***************************************************************************)
Std(s) ==
    IF Len(s) < 2
    THEN [nan |-> TRUE, n |-> Len(s), sum |-> 0, sumsq |-> <<>>]
    ELSE [nan |-> FALSE, n |-> Len(s), sum |-> Sum(s), sumsq |-> SumSquares(s)]

\* n * sumsq
StdLhs(vol) == BigScale(vol.sumsq, vol.n)
\* sum^2 + t^2 * n * (n - 1), with t in whole units (1 unit = 10^4 ticks)
StdRhs(vol, t) ==
    BigAdd(Square(vol.sum), Norm(<<0, 0, 100 * t * t * vol.n * (vol.n - 1)>>))
\* vol >= t, vol > t, vol < t as floating-point comparisons: False on NaN
StdGE(vol, t) == ~vol.nan /\ BigGE(StdLhs(vol), StdRhs(vol, t))
StdGT(vol, t) == ~vol.nan /\ ~BigGE(StdRhs(vol, t), StdLhs(vol))
StdLT(vol, t) == ~vol.nan /\ ~BigGE(StdLhs(vol), StdRhs(vol, t))

(***************************************************************************)
(* The widgets (lines 56-68).                                              *)
(***************************************************************************)
Periods == {"Last 30 Days", "Last 90 Days", "Last 6 Months", "Last Year"}
DefaultCurrencies == <<"USD/EUR", "USD/GBP", "USD/INR">>
DefaultPeriod == "Last 30 Days"
\* options=df['Currency_Pair'].unique()
Options(d) == {d[k].Currency_Pair : k \in 1..Len(d)}
InList(c, list) == \E k \in 1..Len(list) : list[k] = c

(***************************************************************************)
(* Lines 70-85: the date window and the filter.  On an empty frame max()   *)
(* and min() are NaT, every comparison with NaT is False, and no row is    *)
(* kept.                                                                   *)
(***************************************************************************)
Column(d, name) == [k \in 1..Len(d) |-> d[k][name]]

StartOf(d, per) ==
    LET today == SeqMax(Column(d, "Date"))
    IN  IF per = "Last 30 Days" THEN today - 30
        ELSE IF per = "Last 90 Days" THEN today - 90
        ELSE IF per = "Last 6 Months" THEN today - 180
        ELSE SeqMin(Column(d, "Date"))

FilterFlipped(d, cur, per) ==
    IF d = <<>> THEN <<>>
    ELSE LET start_date == StartOf(d, per)
             Keep(r) == InList(r.Currency_Pair, cur) /\ r.Date <= start_date
         IN  SelectSeq(d, Keep)
Filter(d, cur, per) ==
    IF d = <<>> THEN <<>>
    ELSE LET start_date == StartOf(d, per)
             Keep(r) == InList(r.Currency_Pair, cur) /\ r.Date >= start_date
         IN  SelectSeq(d, Keep)

(***************************************************************************)
(* Lines 91-126: the key metrics.                                          *)
(***************************************************************************)
\* line 120
SummaryRisk(volatility) ==
    IF StdGT(volatility, 5) THEN "High"
    ELSE IF StdGT(volatility, 1) THEN "Medium"
    ELSE "Low"

(***************************************************************************)
(* Lines 167 and 203: the two groupby tables.  groupby sorts its keys.     *)
(***************************************************************************)
SortedPairNames == <<"EUR/GBP", "GBP/INR", "USD/EUR", "USD/GBP", "USD/INR", "USD/JPY">>
RatesOf(fd, c) ==
    LET Is(r) == r.Currency_Pair = c
    IN  Column(SelectSeq(fd, Is), "Exchange_Rate")

\* filtered_data.groupby('Currency_Pair')['Exchange_Rate'].agg(['min','max'])
MinMaxByPair(fd) ==
    LET Present(c) == c \in Options(fd)
        keys == SelectSeq(SortedPairNames, Present)
    IN  [k \in 1..Len(keys) |->
            LET rates == RatesOf(fd, keys[k])
            IN  [Currency_Pair |-> keys[k], min |-> SeqMin(rates), max |-> SeqMax(rates)]]

\* filtered_data.groupby('Date')['Exchange_Rate'].mean(): keyed by date
Basket(fd) ==
    [d \in {fd[k].Date : k \in 1..Len(fd)} |->
        LET On(r) == r.Date = d
        IN  Mean(Column(SelectSeq(fd, On), "Exchange_Rate"))]

(***************************************************************************)
(* Lines 222-237: the statistics table.                                    *)
(***************************************************************************)
\* line 227 (the emoji before the word is left out)
TableRisk(vol) ==
    IF StdGT(vol, 5) THEN "High"
    ELSE IF StdGT(vol, 1) THEN "Medium"
    ELSE "Low"

\* curr_data.iloc[-1]
FirstOf(curr_data) == curr_data[1]
LastOf(curr_data) == curr_data[Len(curr_data)]

\* filtered_data[filtered_data['Currency_Pair'] == c]['Exchange_Rate'] and its
\* .std(), for each entry of currencies.  The code evaluates both anew in
\* lines 224 and 226 and in every bucket (lines 251-276); they depend on
\* nothing but filtered_data and the pair, so a run takes them once.
PairSeries(fd, cur) ==
    [k \in 1..Len(cur) |->
        LET curr_data == RatesOf(fd, cur[k]) \o <<>>
        IN  [pair |-> cur[k], curr_data |-> curr_data, std |-> Std(curr_data)]]
        \o <<>>

StatsRow(ps) ==
    LET curr_data == ps.curr_data
        vol       == ps.std
    IN  [pair |-> ps.pair,
         current |-> LastOf(curr_data),
         peak |-> SeqMax(curr_data),
         lowest |-> SeqMin(curr_data),
         average |-> Mean(curr_data),
         volatility |-> vol,
         risk_level |-> TableRisk(vol)]

\* the loop of lines 223-237: a pair without rows gets no row
StatsTable(series) ==
    LET HasRows(ps) == Len(ps.curr_data) > 0
        shown == SelectSeq(series, HasRows)
    IN  [k \in 1..Len(shown) |-> StatsRow(shown[k])]

(***************************************************************************)
(* Lines 248-279: the three risk buckets, each a list comprehension over   *)
(* currencies.                                                             *)
(***************************************************************************)
PairsOf(series) == [k \in 1..Len(series) |-> series[k].pair]

LowRiskNotAbove(series) ==
    LET In(ps) == ~StdGE(ps.std, 1)
    IN  PairsOf(SelectSeq(series, In))
\* line 251
LowRisk(series) ==
    LET In(ps) == StdLT(ps.std, 1)
    IN  PairsOf(SelectSeq(series, In))
\* line 262
MedRisk(series) ==
    LET In(ps) == StdGE(ps.std, 1) /\ StdLT(ps.std, 5)
    IN  PairsOf(SelectSeq(series, In))
\* line 273
HighRisk(series) ==
    LET In(ps) == StdGE(ps.std, 5)
    IN  PairsOf(SelectSeq(series, In))

(***************************************************************************)
(* Lines 81-279: what one run of the script binds, given df and the two    *)
(* widget values.  st.stop() at line 89 ends the run with nothing bound    *)
(* but filtered_data and the warning shown.                                *)
(***************************************************************************)
Unbound ==
    [filtered_data |-> Undefined, warning |-> Undefined, avg_rate |-> Undefined,
     total_volume |-> Undefined, risk |-> Undefined, stats |-> Undefined,
     basket_data |-> Undefined, stats_data |-> Undefined, low_risk |-> Undefined,
     med_risk |-> Undefined, high_risk |-> Undefined]

ScriptNeverStops(data, cur, per) ==
    LET filtered_data == Filter(data, cur, per)
        rates  == Column(filtered_data, "Exchange_Rate") \o <<>>
        series == PairSeries(filtered_data, cur)
    IN  [filtered_data |-> Some(filtered_data),
         warning |-> Undefined,
         avg_rate |-> Some(Mean(rates)),
         total_volume |-> Some(Sum(Column(filtered_data, "Volume"))),
         risk |-> Some(SummaryRisk(Std(rates))),
         stats |-> Some(MinMaxByPair(filtered_data)),
         basket_data |-> Some(Basket(filtered_data)),
         stats_data |-> Some(StatsTable(series)),
         low_risk |-> Some(LowRisk(series)),
         med_risk |-> Some(MedRisk(series)),
         high_risk |-> Some(HighRisk(series))]
Script(data, cur, per) ==
    LET filtered_data == Filter(data, cur, per)
        rates  == Column(filtered_data, "Exchange_Rate") \o <<>>
        series == PairSeries(filtered_data, cur)
    IN  IF filtered_data = <<>>
        THEN \* lines 87-89
             [Unbound EXCEPT
                 !.filtered_data = Some(filtered_data),
                 !.warning = Some("No data available for selected filters")]
        ELSE [filtered_data |-> Some(filtered_data),
              warning |-> Undefined,
              avg_rate |-> Some(Mean(rates)),
              total_volume |-> Some(Sum(Column(filtered_data, "Volume"))),
              risk |-> Some(SummaryRisk(Std(rates))),
              stats |-> Some(MinMaxByPair(filtered_data)),
              basket_data |-> Some(Basket(filtered_data)),
              stats_data |-> Some(StatsTable(series)),
              low_risk |-> Some(LowRisk(series)),
              med_risk |-> Some(MedRisk(series)),
              high_risk |-> Some(HighRisk(series))]

(***************************************************************************)
(* The session.  Streamlit runs the script top to bottom; a change of a    *)
(* widget ends with a new run of the whole script, whose names start       *)
(* unbound.  df keeps its value between runs: the multiselect's options    *)
(* were built from it.                                                     *)
(***************************************************************************)
Finished == pc \in {"done", "stopped"}

\* the multiselect: one more pair picked, appended to the list
Select(c) ==
    /\ Finished
    /\ Len(currencies) < MaxSelected
    /\ ~InList(c, currencies)
    /\ c \in Options(Val(df))
    /\ currencies' = Append(currencies, c)
    /\ pc' = "rerun"
    /\ ns' = Unbound
    /\ UNCHANGED <<session, period>>

\* the multiselect: one pair taken out
Deselect(c) ==
    /\ Finished
    /\ InList(c, currencies)
    /\ currencies' = SelectSeq(currencies, LAMBDA x : x # c)
    /\ pc' = "rerun"
    /\ ns' = Unbound
    /\ UNCHANGED <<session, period>>

\* the selectbox
ChoosePeriod(p) ==
    /\ Finished
    /\ p # period
    /\ period' = p
    /\ pc' = "rerun"
    /\ ns' = Unbound
    /\ UNCHANGED <<session, currencies>>

\* one run of the script, lines 49-279
Run ==
    /\ pc = "rerun"
    /\ LET ld == load_data(cache, span, rng)
       IN  /\ cache' = ld.cache
           /\ rng' = ld.rng
           /\ loads' = loads + ld.ran
           /\ df' = Some(ld.value)
           /\ ns' = Script(ld.value, currencies, period)
    /\ pc' = IF ns'.warning # Undefined THEN "stopped" ELSE "done"
    /\ UNCHANGED <<span, widgets>>

\* a new session: nothing cached, the widgets at their defaults, the first
\* run of the script due; the range is cut to NumDays days
Init ==
    /\ span = [start |-> StartDate, end |-> StartDate + NumDays - 1]
    /\ rng \in 0..(NumSeeds - 1)
    /\ cache = Undefined
    /\ loads = 0
    /\ df = Undefined
    /\ currencies = DefaultCurrencies
    /\ period = DefaultPeriod
    /\ pc = "rerun"
    /\ ns = Unbound

Next ==
    \/ \E c \in AllPairs : Select(c)
    \/ \E c \in AllPairs : Deselect(c)
    \/ \E p \in Periods : ChoosePeriod(p)
    \/ Run

Spec == Init /\ [][Next]_vars

(***************************************************************************)
(* The generator alone: line 49 on any date range of up to MaxRangeDays    *)
(* days from a few start days, and on the range of line 19, from every     *)
(* state of the random generator.                                          *)
(***************************************************************************)
GenStarts == {StartDate, DaysFromCivil(2023, 12, 30), DaysFromCivil(2024, 2, 27)}
GenSpans ==
    {[start |-> s, end |-> s + n - 1] : s \in GenStarts, n \in 1..MaxRangeDays}
        \cup {[start |-> StartDate, end |-> EndDate]}

InitGen ==
    /\ span \in GenSpans
    /\ rng \in 0..6
    /\ cache = Undefined
    /\ loads = 0
    /\ df = Undefined
    /\ currencies = DefaultCurrencies
    /\ period = DefaultPeriod
    /\ pc = "load"
    /\ ns = Unbound

\* line 49: df = load_data()
Load ==
    /\ pc = "load"
    /\ LET ld == load_data(cache, span, rng)
       IN  /\ cache' = ld.cache
           /\ rng' = ld.rng
           /\ loads' = loads + ld.ran
           /\ df' = Some(ld.value)
    /\ pc' = "loaded"
    /\ UNCHANGED <<span, widgets, ns>>

NextGen == Load

SpecGen == InitGen /\ [][NextGen]_vars

(***************************************************************************)
(* The script body on hand-made datasets: up to MaxRows rows, ordered by   *)
(* date, one row at most per (date, pair).  USD/JPY has rows on up to four *)
(* days with rates around 110; USD/INR has rows on the first and the last  *)
(* day, so that a window can hold none of them.                            *)
(***************************************************************************)
EngineRates == {1050000, 1090000, 1100000, 1110000, 1150000}
EngineCells ==
    ({StartDate + 100, StartDate + 200, StartDate + 201, StartDate + 202}
        \X {"USD/JPY"})
    \cup ({StartDate, StartDate + 202} \X {"USD/INR"})
CellRates(cell) == IF cell[2] = "USD/JPY" THEN EngineRates ELSE {830000}
CellKey(cell) == cell[1] * 10 + PairIndex(cell[2])

RECURSIVE SortCells(_)
SortCells(C) ==
    IF C = {} THEN <<>>
    ELSE LET first == CHOOSE c \in C : \A o \in C : CellKey(c) <= CellKey(o)
         IN  <<first>> \o SortCells(C \ {first})

EngineDataset(C, f) ==
    LET order == SortCells(C)
    IN  [k \in 1..Len(order) |->
            [Date |-> order[k][1],
             Currency_Pair |-> order[k][2],
             Exchange_Rate |-> f[order[k]],
             Volume |-> 1000000]]

EngineDatasets ==
    UNION {{EngineDataset(C, f) :
                f \in {g \in [C -> EngineRates \cup {830000}] :
                          \A c \in C : g[c] \in CellRates(c)}} :
           C \in {D \in SUBSET EngineCells :
                     Cardinality(D) >= 1 /\ Cardinality(D) <= MaxRows}}

InitEngine ==
    /\ span = [start |-> StartDate, end |-> StartDate + 202]
    /\ rng = 0
    /\ \E d \in EngineDatasets : cache = Some(d)
    /\ loads = 0
    /\ df = Undefined
    /\ currencies = <<>>
    /\ period = DefaultPeriod
    /\ pc = "rerun"
    /\ ns = Unbound

SpecEngine == InitEngine /\ [][Next]_vars

(***************************************************************************)
(* Properties.                                                             *)
(***************************************************************************)
View == Val(ns.filtered_data)
Elems(seq) == {seq[k] : k \in 1..Len(seq)}

\* the tier the specification gives a standard deviation: High from 5.0 on,
\* Medium from 1.0 on, else Low
TierOf(vol) ==
    IF StdGE(vol, 5) THEN "High"
    ELSE IF StdGE(vol, 1) THEN "Medium"
    ELSE "Low"

\* C1: after a run, the risk level of the key metrics is the tier of the
\* pooled standard deviation of the view, and the risk level of every row of
\* the statistics table is the tier of that pair's standard deviation, where
\* the tier is High for s >= 5.0, Medium for 1.0 <= s < 5.0, Low for s < 1.0.
C1_RiskTiers ==
    pc = "done" =>
        LET pooled == Std(Column(View, "Exchange_Rate"))
            table  == Val(ns.stats_data)
        IN  /\ ~pooled.nan => Val(ns.risk) = TierOf(pooled)
            /\ \A k \in 1..Len(table) :
                  ~table[k].volatility.nan =>
                      table[k].risk_level = TierOf(table[k].volatility)

\* C2: a finished run has stopped with the warning, and bound none of the
\* metrics, tables, basket, statistics or buckets, exactly when the view of
\* the current widget values is empty; otherwise it has bound all of them and
\* shows no warning.  This holds of every run of the session, so also of the
\* runs that follow a stopped one.
C2_EmptySelectionHalts ==
    Finished =>
        LET Analytics == {ns.avg_rate, ns.total_volume, ns.risk, ns.stats,
                          ns.basket_data, ns.stats_data, ns.low_risk,
                          ns.med_risk, ns.high_risk}
        IN  IF Filter(Val(df), currencies, period) = <<>>
            THEN /\ pc = "stopped"
                 /\ ns.warning # Undefined
                 /\ View = <<>>
                 /\ Analytics = {Undefined}
            ELSE /\ pc = "done"
                 /\ ns.warning = Undefined
                 /\ View # <<>>
                 /\ Undefined \notin Analytics
C2_Witness ==
    /\ pc = "stopped"
    /\ currencies = <<>>
    /\ ns.warning # Undefined
    /\ period # DefaultPeriod

\* C3: the generator yields |range| * |pairs| rows, one for each day of the
\* range and each pair of the table: every row is of a day of the range and a
\* configured pair, and no (day, pair) comes twice.
C3_OneRowPerDatePair ==
    pc = "loaded" =>
        LET d == Val(df)
        IN  /\ Len(d) = (span.end - span.start + 1) * Cardinality(AllPairs)
            /\ \A k \in 1..Len(d) :
                  /\ d[k].Date \in span.start..span.end
                  /\ d[k].Currency_Pair \in AllPairs
            /\ Cardinality({<<d[k].Date, d[k].Currency_Pair>> : k \in 1..Len(d)})
                  = Len(d)
C3_Witness ==
    /\ pc = "loaded"
    /\ span.end - span.start + 1 = 3
    /\ span.start = DaysFromCivil(2023, 12, 30)
    /\ Len(Val(df)) = 18

\* C4: every row the generator yields has a rate above zero.
C4_RatesPositive ==
    pc = "loaded" =>
        \A k \in 1..Len(Val(df)) : Val(df)[k].Exchange_Rate > 0

\* C5 as stated: the dataset of load_data's own range covers 365 consecutive
\* days and has 365 * 6 = 2190 rows.
C5_Covers365Days ==
    (pc = "loaded" /\ span = [start |-> StartDate, end |-> EndDate]) =>
        /\ Cardinality({Val(df)[k].Date : k \in 1..Len(Val(df))}) = 365
        /\ Len(Val(df)) = 2190
\* C5 amended: the dataset of load_data's own range, 2023-01-01 to 2024-01-01
\* with both ends, covers 366 consecutive days and has 366 * 6 = 2196 rows.
C5_Covers366Days ==
    (pc = "loaded" /\ span = [start |-> StartDate, end |-> EndDate]) =>
        /\ {Val(df)[k].Date : k \in 1..Len(Val(df))} = StartDate..(StartDate + 365)
        /\ Len(Val(df)) = 2196
C5_Witness ==
    /\ pc = "loaded"
    /\ span.start = StartDate
    /\ span.end = EndDate
    /\ Val(df)[Len(Val(df))].Date = EndDate

\* C6: the body of load_data runs once in a session; once the dataset is
\* there, no step changes it, draws from the generator again or runs the body
\* again, and every finished run has read that very dataset.
C6_GeneratedOnce ==
    /\ [](Finished => (loads = 1 /\ df = cache /\ cache # Undefined))
    /\ [][cache # Undefined =>
             (cache' = cache /\ df' = cache /\ loads' = loads /\ rng' = rng)]_vars
C6_Witness ==
    /\ pc = "stopped"
    /\ loads = 1
    /\ period = "Last Year"
    /\ df = cache

\* C7: filtering the view again with the same widget values, the window taken
\* from the view's own dates, gives the view back.
C7_FilterIdempotent ==
    Finished => Filter(View, currencies, period) = View
C7_Witness ==
    /\ pc = "done"
    /\ \E k \in 1..Len(Val(df)) :
          /\ InList(Val(df)[k].Currency_Pair, currencies)
          /\ Val(df)[k] \notin Elems(View)

\* C8: after a run on a non-empty view, a selected pair with no row in the
\* view has no row in the statistics table and is in none of the buckets.
C8_PairWithoutRowsLeftOut ==
    pc = "done" =>
        \A k \in 1..Len(currencies) :
            RatesOf(View, currencies[k]) = <<>> =>
                /\ \A j \in 1..Len(Val(ns.stats_data)) :
                      Val(ns.stats_data)[j].pair # currencies[k]
                /\ currencies[k] \notin Elems(Val(ns.low_risk))
                /\ currencies[k] \notin Elems(Val(ns.med_risk))
                /\ currencies[k] \notin Elems(Val(ns.high_risk))
C8_Witness ==
    /\ pc = "done"
    /\ \E k \in 1..Len(currencies) : RatesOf(View, currencies[k]) = <<>>
    /\ Val(ns.stats_data) # <<>>

\* C9: the current rate of every row of the statistics table is the rate of
\* the row of that pair in the view whose date is the latest.
C9_CurrentRateIsLatest ==
    pc = "done" =>
        \A j \in 1..Len(Val(ns.stats_data)) :
            LET row    == Val(ns.stats_data)[j]
                Is(r)  == r.Currency_Pair = row.pair
                mine   == SelectSeq(View, Is)
                latest == SeqMax(Column(mine, "Date"))
            IN  \E k \in 1..Len(mine) :
                    /\ mine[k].Date = latest
                    /\ mine[k].Exchange_Rate = row.current
C9_Witness ==
    /\ pc = "done"
    /\ Len(Val(ns.stats_data)) = 3
    /\ period = "Last 30 Days"
    /\ \E j \in 1..3 :
          LET curr_data == RatesOf(View, Val(ns.stats_data)[j].pair)
          IN  curr_data[1] # curr_data[Len(curr_data)]

\* C10: every row of the statistics table whose standard deviation is defined
\* is labelled Low, Medium or High exactly when its pair is listed in the
\* low, the medium or the high bucket.
C10_TableAgreesWithBuckets ==
    pc = "done" =>
        \A j \in 1..Len(Val(ns.stats_data)) :
            LET row == Val(ns.stats_data)[j]
            IN  ~row.volatility.nan =>
                    /\ row.risk_level = "Low" <=> row.pair \in Elems(Val(ns.low_risk))
                    /\ row.risk_level = "Medium" <=> row.pair \in Elems(Val(ns.med_risk))
                    /\ row.risk_level = "High" <=> row.pair \in Elems(Val(ns.high_risk))

=============================================================================
